---- MODULE Spec2Model ----
(***************************************************************************)
(* Model of the atdir crate (src/src/lib.rs): AtDir, a handle that owns    *)
(* one directory descriptor, its constructor, its Drop and its consuming,  *)
(* directory-relative operations.                                          *)
(*                                                                         *)
(* The operating system is the environment: a descriptor table shared by   *)
(* all threads (open hands out the lowest free number, close frees it), a  *)
(* thread-local errno, and one directory holding symbolic links.  A thread *)
(* step is one system call together with the thread-local code around it;  *)
(* steps of different threads interleave.                                  *)
(***************************************************************************)
EXTENDS Integers, Sequences, FiniteSets, TLC

\* ------------------------------------------------------------------ bounds
MaxHandles == 3
NumFds == 3
MaxCap == 3
MaxName == 2

Threads == {"t1", "t2"}
Handles == 1..MaxHandles
FDs == 1..NumFds
\* an integer that is never an open descriptor, for close(handle, fd)
BadFd == NumFds + 1
\* what a descriptor-table slot of a raw descriptor (openat's result) holds
Raw == MaxHandles + 1
\* names and symbolic-link contents: byte strings <<1>>, <<1,1>>, ...
Names == {[i \in 1..n |-> 1] : n \in 1..MaxName}
Paths == {"dir", "missing"}
Caps == 0..MaxCap

SimpleOps == {"stat", "chmod", "chown", "mkdir", "statx", "unlink", "utimens"}

VARIABLES
    fdt,      \* OS descriptor table: 0 closed, h the directory opened for handle h, Raw
    fs,       \* the directory's symbolic links: name -> content, <<>> no entry
    errno,    \* thread-local errno
    hstate,   \* per handle: "unborn", "open" (usable), "busy" (moved into a call), "released"
    root,     \* AtDir.root
    owner,    \* the thread that owns the handle
    closes,   \* close calls issued on the handle's descriptor number during its life
    calls,    \* directory-relative calls that were passed the handle's descriptor
              \* (both counted 0, 1, 2 = twice or more)
    ownCalls, \* those of them the handle was moved into (self, rename's newroot)
    pc,       \* per thread: "idle", "call" (rename: self dropped, call pending),
              \* "drop" (handles left to drop), "ret" (about to return)
    cur,      \* per thread: the frame of the operation in progress
    result    \* per thread: what the operation in progress returns

vars == <<fdt, fs, errno, hstate, root, owner, closes, calls, ownCalls, pc, cur, result>>

\* ------------------------------------------------------------ io::Result
Ok(v) == [kind |-> "Ok", val |-> v, code |-> "none"]
Err(e) == [kind |-> "Err", val |-> <<>>, code |-> e]
\* io::Error::new(io::ErrorKind::InvalidInput, "Buffer too small")
BufferTooSmall == [kind |-> "Err", val |-> <<>>, code |-> "InvalidInput"]

\* io::Error::kind() of an OS error
ErrorKind(e) ==
    CASE e \in {"EACCES", "EPERM"} -> "PermissionDenied"
      [] e = "ENOENT" -> "NotFound"
      [] OTHER -> "Other"

ret_fd(fd, e) == IF fd < 0 THEN Err(e) ELSE Ok(<<fd>>)

ret_err(success, e) == IF success < 0 THEN Err(e) ELSE Ok(<<>>)

\* stat, statx: the metadata itself is not modelled
StatResult(success, e) == IF success = -1 THEN Err(e) ELSE Ok(<<>>)

AccessResultAlwaysFalse(success, e) ==
    IF success = -1 THEN Ok(<<FALSE>>) ELSE Ok(<<TRUE>>)

AccessResult(success, e) ==
    IF success = -1
    THEN IF ErrorKind(e) = "PermissionDenied" THEN Ok(<<FALSE>>) ELSE Err(e)
    ELSE Ok(<<TRUE>>)

\* RxBuffer::rx_done(n): the first n bytes of the receive buffer
rx_done(buf, n) == SubSeq(buf, 1, n)

\* readlink's match: `let len = readlinkat(..)` shadows the capacity, so the
\* guard `size if size == len` compares the returned count with itself
ReadlinkResult(cap, n, e, buf) ==
    LET len == n IN
    IF len = -1 THEN Err(e)
    ELSE IF len = len THEN BufferTooSmall
    ELSE Ok(rx_done(buf, len))

\* ------------------------------------------------------ the operating system
Min(S) == CHOOSE x \in S : \A y \in S : x <= y

FreeFds(tab) == {f \in FDs : tab[f] = 0}

\* open(path, O_DIRECTORY | O_CLOEXEC) / openat: the lowest free number
SysOpen(tab, exists, what) ==
    IF ~exists THEN [ret |-> -1, err |-> "ENOENT", tab |-> tab]
    ELSE IF FreeFds(tab) = {} THEN [ret |-> -1, err |-> "EMFILE", tab |-> tab]
    ELSE LET f == Min(FreeFds(tab)) IN
         [ret |-> f, err |-> "none", tab |-> [tab EXCEPT ![f] = what]]

SysClose(tab, fd) ==
    IF fd \in FDs /\ tab[fd] # 0
    THEN [ret |-> 0, err |-> "none", tab |-> [tab EXCEPT ![fd] = 0]]
    ELSE [ret |-> -1, err |-> "EBADF", tab |-> tab]

\* what a descriptor number refers to (0: nothing)
Desc(tab, fd) == IF fd \in FDs THEN tab[fd] ELSE 0

\* the failure every *at call has on a base that is no open directory
BaseErr(tab, fd) ==
    IF Desc(tab, fd) = 0 THEN "EBADF"
    ELSE IF Desc(tab, fd) = Raw THEN "ENOTDIR"
    ELSE "none"

\* the outcomes of an *at call on the given bases: the call's own failures
\* (errs) are the file system's choice
AtOutcomes(tab, bases, errs) ==
    LET bad == {BaseErr(tab, b) : b \in bases} \ {"none"} IN
    IF bad # {} THEN {[ret |-> -1, err |-> e] : e \in bad}
    ELSE {[ret |-> 0, err |-> "none"]} \cup {[ret |-> -1, err |-> e] : e \in errs}

PathErrs == {"ENOENT", "EACCES"}
AccessErrs == {"ENOENT", "EACCES", "EPERM"}

\* a log record (info!, warn!) goes through the installed logger, whose own
\* system calls may overwrite errno
LogEffect(e) == {e, "ENOTTY"}

SetErrno(t, out) == IF out.ret < 0 THEN out.err ELSE errno[t]

\* ------------------------------------------------------------------ state
NoFrame == [op |-> "none", self |-> 0, dest |-> 0, base |-> 0, todrop |-> {}]
NoResult == [op |-> "none", self |-> 0, dest |-> 0, res |-> Ok(<<>>),
             ret |-> 0, callErr |-> "none", cap |-> 0, link |-> <<>>, data |-> <<>>,
             srcReleased |-> FALSE, srcDesc |-> 0, dstDesc |-> 0]

Live(h) == hstate[h] \in {"open", "busy"}

\* counting 0, 1, twice or more
Inc(n) == IF n < 2 THEN n + 1 ELSE n

Init ==
    /\ fdt = [f \in FDs |-> 0]
    /\ fs = [n \in Names |-> <<>>]
    /\ errno = [t \in Threads |-> "none"]
    /\ hstate = [h \in Handles |-> "unborn"]
    /\ root = [h \in Handles |-> 0]
    /\ owner = [h \in Handles |-> "none"]
    /\ closes = [h \in Handles |-> 0]
    /\ calls = [h \in Handles |-> 0]
    /\ ownCalls = [h \in Handles |-> 0]
    /\ pc = [t \in Threads |-> "idle"]
    /\ cur = [t \in Threads |-> NoFrame]
    /\ result = [t \in Threads |-> NoResult]


\* ------------------------------------------------------- ownership (Rust)
\* the handles thread t may pass to an operation: its own, not yet moved
Usable(t) == {h \in Handles : hstate[h] = "open" /\ owner[h] = t}

\* a handle passed by value is moved into the call: the caller keeps nothing
MoveIn(S) == [x \in Handles |-> IF x \in S THEN "busy" ELSE hstate[x]]

\* `self` of every relative operation is taken by value
SelfBorrowed(h) == {}

SelfMoved(h) == {h}

\* link(self, .., newdir: Option<&AtDir>, ..): self by value, newdir by reference
LinkMovedBoth(h, d) == {h, d} \ {0}

LinkMoved(h, d) == {h}

\* rename(self, .., newroot: Option<AtDir>, ..): both by value
RenameMoved(h, d) == {h, d} \ {0}

\* impl Drop for AtDir: info!, then libc::close(self.root), result ignored
DropHandle(t, h) ==
    LET c == SysClose(fdt, root[h]) IN
    /\ fdt' = c.tab
    /\ closes' = [x \in Handles |->
                    IF (Live(x) \/ x = h) /\ root[x] = root[h]
                    THEN Inc(closes[x]) ELSE closes[x]]
    /\ root' = [root EXCEPT ![h] = 0]
    /\ owner' = [owner EXCEPT ![h] = "none"]

\* errno after a drop inside an operation: the logger's and close's doing
DropErrno(t, h) ==
    \E e \in LogEffect(errno[t]) :
        errno' = [errno EXCEPT ![t] =
                    IF SysClose(fdt, root[h]).ret < 0 THEN "EBADF" ELSE e]

\* the bookkeeping of a directory-relative call of thread t: self h, second
\* handle d (0: none), the descriptor numbers passed, the call's outcome out,
\* the value res the operation returns once the handles it owns (drops: those
\* moved into it and not yet dropped) are dropped, and of its arguments the
\* buffer capacity cap, the name link and the bytes data given to or written
\* by the call
CallDone(t, op, h, d, base, dbase, out, res, drops, cap, link, data) ==
    /\ errno' = [errno EXCEPT ![t] = SetErrno(t, out)]
    /\ calls' = [x \in Handles |-> IF x \in {h, d} THEN Inc(calls[x]) ELSE calls[x]]
    /\ ownCalls' = [x \in Handles |->
                      IF x \in {h} \cup drops THEN Inc(ownCalls[x]) ELSE ownCalls[x]]
    /\ pc' = [pc EXCEPT ![t] = IF drops = {} THEN "ret" ELSE "drop"]
    /\ cur' = [cur EXCEPT ![t] =
                 [op |-> op, self |-> h, dest |-> d, base |-> base, todrop |-> drops]]
    /\ result' = [result EXCEPT ![t] =
                 [op |-> op, self |-> h, dest |-> d, res |-> res,
                  ret |-> out.ret, callErr |-> out.err, cap |-> cap, link |-> link,
                  data |-> data,
                  srcReleased |-> (hstate[h] = "released"),
                  srcDesc |-> Desc(fdt, base), dstDesc |-> Desc(fdt, dbase)]]

\* ------------------------------------------------------------- operations
\* AtDir::new(path)
AtDirNew(fd, e) == IF fd < 0 THEN Err(e) ELSE Ok(<<fd>>)

New(t, p) ==
    /\ pc[t] = "idle"
    /\ \E x \in Handles : hstate[x] = "unborn"
    /\ LET h == Min({x \in Handles : hstate[x] = "unborn"})
           o == SysOpen(fdt, p = "dir", h)
       IN \E e \in LogEffect(SetErrno(t, o)) :
            /\ fdt' = o.tab
            /\ errno' = [errno EXCEPT ![t] = e]
            /\ result' = [result EXCEPT ![t] =
                   [NoResult EXCEPT !.op = "new", !.res = AtDirNew(o.ret, e),
                                    !.ret = o.ret, !.callErr = o.err,
                                    !.self = IF o.ret < 0 THEN 0 ELSE h]]
            /\ IF o.ret < 0
               THEN UNCHANGED <<hstate, root, owner>>
               ELSE /\ hstate' = [hstate EXCEPT ![h] = "open"]
                    /\ root' = [root EXCEPT ![h] = o.ret]
                    /\ owner' = [owner EXCEPT ![h] = t]
    /\ pc' = [pc EXCEPT ![t] = "ret"]
    /\ cur' = [cur EXCEPT ![t] = [NoFrame EXCEPT !.op = "new"]]
    /\ UNCHANGED <<fs, closes, calls, ownCalls>>

\* a handle goes out of scope unused
DropUnused(t, h) ==
    /\ pc[t] = "idle"
    /\ h \in Usable(t)
    /\ DropHandle(t, h)
    /\ hstate' = [hstate EXCEPT ![h] = "released"]
    /\ UNCHANGED <<fs, errno, calls, ownCalls, pc, cur, result>>

\* the end of an operation's body: the handles it still owns are dropped, and
\* after the last of them the operation returns its value to the caller.
\* errno is dead between operations (every read of it follows a failing call,
\* which sets it), so its value is not kept
DropStep(t) ==
    /\ pc[t] = "drop"
    /\ LET h == Min(cur[t].todrop)
           rest == cur[t].todrop \ {h}
       IN /\ DropHandle(t, h)
          /\ hstate' = [hstate EXCEPT ![h] = "released"]
          /\ IF rest = {}
             THEN /\ pc' = [pc EXCEPT ![t] = "idle"]
                  /\ cur' = [cur EXCEPT ![t] = NoFrame]
                  /\ result' = [result EXCEPT ![t] = NoResult]
                  /\ errno' = [errno EXCEPT ![t] = "none"]
             ELSE /\ DropErrno(t, h)
                  /\ cur' = [cur EXCEPT ![t].todrop = rest]
                  /\ UNCHANGED <<pc, result>>
    /\ UNCHANGED <<fs, calls, ownCalls>>

\* an operation with nothing left to drop (AtDir::new) returns its value
Return(t) ==
    /\ pc[t] = "ret"
    /\ pc' = [pc EXCEPT ![t] = "idle"]
    /\ cur' = [cur EXCEPT ![t] = NoFrame]
    /\ result' = [result EXCEPT ![t] = NoResult]
    /\ errno' = [errno EXCEPT ![t] = "none"]
    /\ UNCHANGED <<fdt, fs, hstate, root, owner, closes, calls, ownCalls>>

\* stat, chmod, chown, mkdir, statx, unlink, utimens: one *at call on self.root
\* (what the call does to the directory is the file system's business; the
\* seven differ in nothing the model keeps, so the frame names them "simple")
Simple(t, h, op) ==
    /\ pc[t] = "idle"
    /\ h \in Usable(t)
    /\ \E out \in AtOutcomes(fdt, {root[h]}, PathErrs) :
         LET e == SetErrno(t, out)
             res == IF op \in {"stat", "statx"} THEN StatResult(out.ret, e)
                    ELSE ret_err(out.ret, e)
         IN CallDone(t, "simple", h, 0, root[h], root[h], out, res, SelfMoved(h), 0, <<>>, <<>>)
    /\ hstate' = MoveIn(SelfMoved(h))
    /\ UNCHANGED <<fdt, fs, root, owner, closes>>

\* access(self, pathname, mode, flags)
Access(t, h) ==
    /\ pc[t] = "idle"
    /\ h \in Usable(t)
    /\ \E out \in AtOutcomes(fdt, {root[h]}, AccessErrs) :
         CallDone(t, "access", h, 0, root[h], root[h], out,
                  AccessResult(out.ret, SetErrno(t, out)), SelfMoved(h), 0, <<>>, <<>>)
    /\ hstate' = MoveIn(SelfMoved(h))
    /\ UNCHANGED <<fdt, fs, root, owner, closes>>

\* open(self, pathname, flags, mode): openat hands out a raw descriptor
Open(t, h) ==
    /\ pc[t] = "idle"
    /\ h \in Usable(t)
    /\ \E exists \in BOOLEAN :
         LET o == IF BaseErr(fdt, root[h]) # "none"
                  THEN [ret |-> -1, err |-> BaseErr(fdt, root[h]), tab |-> fdt]
                  ELSE SysOpen(fdt, exists, Raw)
         IN /\ fdt' = o.tab
            /\ CallDone(t, "open", h, 0, root[h], root[h], o,
                        ret_fd(o.ret, SetErrno(t, o)), SelfMoved(h), 0, <<>>, <<>>)
    /\ hstate' = MoveIn(SelfMoved(h))
    /\ UNCHANGED <<fs, root, owner, closes>>

\* close(self, fd): libc::close on the integer given, then self is dropped
Close(t, h, fd) ==
    /\ pc[t] = "idle"
    /\ h \in Usable(t)
    /\ LET c == SysClose(fdt, fd) IN
         /\ fdt' = c.tab
         /\ errno' = [errno EXCEPT ![t] = SetErrno(t, c)]
         /\ result' = [result EXCEPT ![t] =
                [NoResult EXCEPT !.op = "close", !.self = h,
                                 !.res = ret_err(c.ret, SetErrno(t, c)),
                                 !.ret = c.ret, !.callErr = c.err]]
    /\ closes' = [x \in Handles |->
                    IF Live(x) /\ root[x] = fd THEN Inc(closes[x]) ELSE closes[x]]
    /\ hstate' = MoveIn(SelfMoved(h))
    /\ pc' = [pc EXCEPT ![t] = "drop"]
    /\ cur' = [cur EXCEPT ![t] =
                 [op |-> "close", self |-> h, dest |-> 0, base |-> 0, todrop |-> {h}]]
    /\ UNCHANGED <<fs, root, owner, calls, ownCalls>>


\* symlinkat(target, newdirfd, linkpath)
SysSymlinkat(tab, fsys, target, newdirfd, linkpath) ==
    IF BaseErr(tab, newdirfd) # "none"
    THEN [ret |-> -1, err |-> BaseErr(tab, newdirfd), fs |-> fsys]
    ELSE IF fsys[linkpath] # <<>>
    THEN [ret |-> -1, err |-> "EEXIST", fs |-> fsys]
    ELSE [ret |-> 0, err |-> "none", fs |-> [fsys EXCEPT ![linkpath] = target]]

\* the arguments symlink passes to symlinkat: its own order is (linkpath,
\* target), the call's is (target, newdirfd, linkpath)
SymlinkatArgsSameOrder(linkpath, target) ==
    [target |-> linkpath, linkpath |-> target]

SymlinkatArgs(linkpath, target) ==
    [target |-> target, linkpath |-> linkpath]

\* symlink(self, linkpath, target)
Symlink(t, h, linkpath, target) ==
    /\ pc[t] = "idle"
    /\ h \in Usable(t)
    /\ LET a == SymlinkatArgs(linkpath, target)
           o == SysSymlinkat(fdt, fs, a.target, root[h], a.linkpath)
       IN
         /\ fs' = o.fs
         /\ CallDone(t, "symlink", h, 0, root[h], root[h], o,
                     ret_err(o.ret, SetErrno(t, o)), SelfMoved(h), 0, linkpath,
                     target)
    /\ hstate' = MoveIn(SelfMoved(h))
    /\ UNCHANGED <<fdt, root, owner, closes>>

\* readlinkat(dirfd, pathname, buf, bufsiz): at most bufsiz bytes of the
\* link's content are written, and their count is returned
SysReadlinkat(tab, fsys, dirfd, pathname, bufsiz) ==
    IF BaseErr(tab, dirfd) # "none"
    THEN [ret |-> -1, err |-> BaseErr(tab, dirfd), buf |-> <<>>]
    ELSE IF fsys[pathname] = <<>>
    THEN [ret |-> -1, err |-> "ENOENT", buf |-> <<>>]
    ELSE IF bufsiz = 0
    THEN [ret |-> -1, err |-> "EINVAL", buf |-> <<>>]
    ELSE LET n == IF Len(fsys[pathname]) < bufsiz THEN Len(fsys[pathname]) ELSE bufsiz
         IN [ret |-> n, err |-> "none", buf |-> SubSeq(fsys[pathname], 1, n)]

\* readlink(self, pathname, buf): buf.as_c_char() gives the capacity cap
Readlink(t, h, pathname, cap) ==
    /\ pc[t] = "idle"
    /\ h \in Usable(t)
    /\ LET o == SysReadlinkat(fdt, fs, root[h], pathname, cap) IN
         CallDone(t, "readlink", h, 0, root[h], root[h], o,
                  ReadlinkResult(cap, o.ret, SetErrno(t, o), o.buf),
                  SelfMoved(h), cap, pathname, o.buf)
    /\ hstate' = MoveIn(SelfMoved(h))
    /\ UNCHANGED <<fdt, fs, root, owner, closes>>

\* link(self, oldpath, newdir, newpath, flags); d = 0 is newdir = None.  The
\* borrow of newdir ends with the call: a handle cannot be moved while borrowed,
\* so d is not self
Link(t, h, d) ==
    /\ pc[t] = "idle"
    /\ h \in Usable(t)
    /\ d \in {0} \cup (Usable(t) \ {h})
    /\ LET newdir == IF d = 0 THEN root[h] ELSE root[d] IN
       \E out \in AtOutcomes(fdt, {root[h], newdir}, PathErrs) :
         CallDone(t, "link", h, d, root[h], newdir, out,
                  ret_err(out.ret, SetErrno(t, out)), LinkMoved(h, d), 0, <<>>, <<>>)
    /\ hstate' = MoveIn(LinkMoved(h, d))
    /\ UNCHANGED <<fdt, fs, root, owner, closes>>

\* rename(self, oldname, None, newname): newroot.unwrap_or(self) is self, which
\* lives as a temporary until the call has returned
RenameSame(t, h) ==
    /\ pc[t] = "idle"
    /\ h \in Usable(t)
    /\ \E out \in AtOutcomes(fdt, {root[h]}, PathErrs) :
         CallDone(t, "rename", h, 0, root[h], root[h], out,
                  ret_err(out.ret, SetErrno(t, out)), RenameMoved(h, 0), 0, <<>>, <<>>)
    /\ hstate' = MoveIn(RenameMoved(h, 0))
    /\ UNCHANGED <<fdt, fs, root, owner, closes>>

\* rename(self, oldname, Some(d), newname), up to the call: the arguments are
\* evaluated left to right, so self.root is copied, then newroot.unwrap_or(self)
\* takes self as its unused default and drops it on return (close(self.root)),
\* and the destination handle is the temporary that outlives the call
RenameBegin(t, h, d) ==
    /\ pc[t] = "idle"
    /\ h \in Usable(t)
    /\ d \in Usable(t) \ {h}
    /\ DropHandle(t, h)
    /\ DropErrno(t, h)
    /\ hstate' = [MoveIn(RenameMoved(h, d)) EXCEPT ![h] = "released"]
    /\ pc' = [pc EXCEPT ![t] = "call"]
    /\ cur' = [cur EXCEPT ![t] =
                 [op |-> "rename", self |-> h, dest |-> d, base |-> root[h],
                  todrop |-> {d}]]
    /\ UNCHANGED <<fs, calls, ownCalls, result>>

\* libc::renameat(copied self.root, oldname, d.root, newname), then ret_err
RenameCall(t) ==
    /\ pc[t] = "call"
    /\ LET f == cur[t] IN
       \E out \in AtOutcomes(fdt, {f.base, root[f.dest]}, PathErrs) :
         CallDone(t, "rename", f.self, f.dest, f.base, root[f.dest], out,
                  ret_err(out.ret, SetErrno(t, out)), f.todrop, 0, <<>>, <<>>)
    /\ UNCHANGED <<fdt, fs, hstate, root, owner, closes>>

\* fgetxattr(filedes, name, value, size): a size of 0 asks for the value's
\* length and writes nothing; a value longer than a non-zero size is ERANGE
SysFgetxattr(tab, filedes, attr, size) ==
    IF Desc(tab, filedes) = 0 THEN [ret |-> -1, err |-> "EBADF", buf |-> <<>>]
    ELSE IF attr = <<>> THEN [ret |-> -1, err |-> "ENODATA", buf |-> <<>>]
    ELSE IF size = 0 THEN [ret |-> Len(attr), err |-> "none", buf |-> <<>>]
    ELSE IF Len(attr) > size THEN [ret |-> -1, err |-> "ERANGE", buf |-> <<>>]
    ELSE [ret |-> Len(attr), err |-> "none", buf |-> attr]

\* flistxattr(filedes, list, size): the same, and an empty list is 0 bytes
SysFlistxattr(tab, filedes, list, size) ==
    IF Desc(tab, filedes) = 0 THEN [ret |-> -1, err |-> "EBADF", buf |-> <<>>]
    ELSE IF size = 0 THEN [ret |-> Len(list), err |-> "none", buf |-> <<>>]
    ELSE IF Len(list) > size THEN [ret |-> -1, err |-> "ERANGE", buf |-> <<>>]
    ELSE [ret |-> Len(list), err |-> "none", buf |-> list]

\* the memory rx_done(n) makes a slice of: the bytes the call wrote, followed,
\* when n is larger, by bytes it did not write (0)
Region(buf, n) ==
    IF n <= Len(buf) THEN buf ELSE buf \o [i \in 1..(n - Len(buf)) |-> 0]

\* fgetxattr / flistxattr: `if len == -1 { Err } else { Ok(rx_done(len)) }`
XattrResult(n, e, buf) ==
    IF n = -1 THEN Err(e) ELSE Ok(rx_done(Region(buf, n), n))

\* the bookkeeping of a call on a raw descriptor: no handle takes part
RawCallDone(t, op, out, res, cap) ==
    /\ errno' = [errno EXCEPT ![t] = SetErrno(t, out)]
    /\ pc' = [pc EXCEPT ![t] = "ret"]
    /\ cur' = [cur EXCEPT ![t] = [NoFrame EXCEPT !.op = op]]
    /\ result' = [result EXCEPT ![t] =
                 [NoResult EXCEPT !.op = op, !.res = res, !.ret = out.ret,
                                  !.callErr = out.err, !.cap = cap, !.data = out.buf]]
    /\ UNCHANGED <<fdt, fs, hstate, root, owner, closes, calls, ownCalls>>

\* AtDir::fgetxattr(filedes, name, value): value.as_c_void() gives the capacity
\* cap; attr is the attribute's value on the file (<<>>: no such attribute)
Fgetxattr(t, filedes, attr, cap) ==
    /\ pc[t] = "idle"
    /\ LET o == SysFgetxattr(fdt, filedes, attr, cap) IN
         RawCallDone(t, "fgetxattr", o, XattrResult(o.ret, SetErrno(t, o), o.buf), cap)

\* AtDir::flistxattr(filedes, list): list is the file's attribute-name list
Flistxattr(t, filedes, list, cap) ==
    /\ pc[t] = "idle"
    /\ LET o == SysFlistxattr(fdt, filedes, list, cap) IN
         RawCallDone(t, "flistxattr", o, XattrResult(o.ret, SetErrno(t, o), o.buf), cap)

\* one step of thread t on the handles it owns
Step(t) ==
    \/ \E p \in Paths : New(t, p)
    \/ \E h \in Handles : DropUnused(t, h)
    \/ DropStep(t)
    \/ Return(t)
    \/ \E h \in Handles, op \in SimpleOps : Simple(t, h, op)
    \/ \E h \in Handles : Access(t, h)
    \/ \E h \in Handles : Open(t, h)
    \/ \E h \in Handles, fd \in FDs \cup {BadFd} : Close(t, h, fd)
    \/ \E h \in Handles, l \in Names, tg \in Names : Symlink(t, h, l, tg)
    \/ \E h \in Handles, n \in Names, cap \in Caps : Readlink(t, h, n, cap)
    \/ \E h \in Handles, d \in Handles \cup {0} : Link(t, h, d)
    \/ \E h \in Handles : RenameSame(t, h)
    \/ \E h \in Handles, d \in Handles : RenameBegin(t, h, d)
    \/ RenameCall(t)

\* one call by thread t of a function that takes a raw descriptor and no handle
\* (they read the descriptor table and change nothing the handles depend on)
XattrStep(t) ==
    \/ \E fd \in FDs \cup {BadFd}, a \in Names \cup {<<>>}, cap \in Caps :
          Fgetxattr(t, fd, a, cap)
    \/ \E fd \in FDs \cup {BadFd}, l \in Names \cup {<<>>}, cap \in Caps :
          Flistxattr(t, fd, l, cap)

\* threads that each open directories and use the handles they own
Next == \E t \in Threads : Step(t)

Spec == Init /\ [][Next]_vars

\* a single-threaded caller
NextSeq == Step("t1")

SpecSeq == Init /\ [][NextSeq]_vars

\* a single-threaded caller that also reads extended attributes
NextXattr == Step("t1") \/ XattrStep("t1")

SpecXattr == Init /\ [][NextXattr]_vars

TypeOK ==
    /\ fdt \in [FDs -> 0..Raw]
    /\ hstate \in [Handles -> {"unborn", "open", "busy", "released"}]
    /\ root \in [Handles -> FDs \cup {0}]
    /\ pc \in [Threads -> {"idle", "call", "drop", "ret"}]


\* ------------------------------------------------------------------ claims
\* thread t has issued the underlying call of the operation in progress
Called(t) == pc[t] \in {"drop", "ret"} /\ result[t].op # "none"

\* C1: every directory-relative operation issues its underlying call while the
\* consumed handle is still unreleased; the handle's descriptor is closed (its
\* Drop runs) only after the call has returned.
C1_CallBeforeRelease ==
    \A t \in Threads :
        (Called(t) /\ result[t].op # "new") => ~result[t].srcReleased

\* C2: the close call has been issued exactly once on the descriptor of every
\* released handle: never zero times, never twice.
C2_ClosedExactlyOnce ==
    \A h \in Handles : hstate[h] = "released" => closes[h] = 1

\* C3: in every interleaving, the descriptor number an operation passes to its
\* underlying call has not been reassigned to another open: it never refers to
\* a directory that a different handle opened.
C3_BaseNotSwapped ==
    \A t \in Threads :
        (Called(t) /\ result[t].op \notin {"new", "close"}) =>
            result[t].srcDesc \in {0, result[t].self}

\* a link call with a destination handle returns to its caller in this step
LinkReturns(t) ==
    /\ pc[t] = "drop" /\ pc'[t] = "idle"
    /\ cur[t].op = "link" /\ cur[t].dest # 0

C5_ReadlinkShortTarget ==
    \A t \in Threads :
        (/\ Called(t) /\ result[t].op = "readlink"
         /\ result[t].ret >= 0 /\ result[t].ret < result[t].cap) =>
            /\ result[t].res = Ok(fs[result[t].link])
            /\ Len(result[t].res.val) = result[t].ret

\* C6: readlink returns the synthesized "Buffer too small" error exactly when
\* the call succeeds with a byte count equal to the capacity, and a failing
\* call yields the OS error.
C6_TooSmallIffFull ==
    \A t \in Threads :
        (Called(t) /\ result[t].op = "readlink") =>
            /\ (result[t].res = BufferTooSmall) <=>
                   (result[t].ret >= 0 /\ result[t].ret = result[t].cap)
            /\ result[t].ret = -1 => result[t].res = Err(result[t].callErr)

\* C7: access returns true when the check succeeds, false exactly when it
\* fails with permission-denied, and the error for every other failure.
C7_AccessMapping ==
    \A t \in Threads :
        (Called(t) /\ result[t].op = "access") =>
            LET r == result[t]
                denied == r.ret = -1 /\ r.callErr \in {"EACCES", "EPERM"}
            IN /\ r.ret = 0 => r.res = Ok(<<TRUE>>)
               /\ denied <=> r.res = Ok(<<FALSE>>)
               /\ (r.ret = -1 /\ ~denied) => r.res = Err(r.callErr)

\* access on a name that does not exist has returned the error
C7_Witness ==
    \E t \in Threads :
        /\ Called(t) /\ result[t].op = "access"
        /\ result[t].ret = -1 /\ result[t].callErr = "ENOENT"
        /\ result[t].res = Err("ENOENT")

\* C8: at every reachable state no two live handles hold the same descriptor
\* value, and every live handle's descriptor refers to the directory that
\* handle itself opened.
C8_NoAliasing ==
    /\ \A h1, h2 \in Handles :
          (Live(h1) /\ Live(h2) /\ h1 # h2) => root[h1] # root[h2]
    /\ \A h \in Handles : Live(h) => Desc(fdt, root[h]) = h

\* C9: when the underlying call of new or of a relative operation fails, the
\* error returned carries the code that call set.
C9_ErrorVerbatim ==
    \A t \in Threads :
        (Called(t) /\ result[t].ret < 0 /\ result[t].res.kind = "Err") =>
            result[t].res.code = result[t].callErr

CloseCallStep(t) == pc[t] = "idle" /\ pc'[t] = "drop" /\ cur'[t].op = "close"

\* C11: the descriptor open returns is not owned by the handle: it stays open
\* when handles are released and is closed only by close(handle, descriptor);
\* releasing a handle closes no descriptor other than that handle's own.
C11_RawNotOwned ==
    [][\A f \in FDs :
          /\ (fdt[f] = Raw /\ fdt'[f] # Raw) => \E t \in Threads : CloseCallStep(t)
          /\ (fdt[f] \in Handles /\ fdt'[f] # fdt[f]) =>
                \/ \E t \in Threads : CloseCallStep(t)
                \/ hstate[fdt[f]] # "released" /\ hstate'[fdt[f]] = "released"]_vars


\* C12: rename issues a single underlying call and releases every handle it
\* was given exactly once, after the call: the source is not released when the
\* call is issued, each given handle's descriptor is passed to that one call,
\* and a given handle is dropped once (it is left to drop until it is released).
C12_RenameReleasesAfterCall ==
    \A t \in Threads :
        (Called(t) /\ result[t].op = "rename") =>
            LET given == {result[t].self, result[t].dest} \ {0} IN
            /\ ~result[t].srcReleased
            /\ \A h \in given : ownCalls[h] = 1
            /\ \A h \in given : hstate[h] = "busy" <=> h \in cur[t].todrop
            /\ \A h \in given : hstate[h] \in {"busy", "released"}


\* thread t issues the underlying call of operation op in this step
CallStep(t, op) == pc[t] = "idle" /\ pc'[t] = "drop" /\ result'[t].op = op

C14_RxCountWithinCapacity ==
    \A t \in Threads :
        (/\ Called(t) /\ result[t].op \in {"fgetxattr", "flistxattr"}
         /\ result[t].res.kind = "Ok") =>
            /\ result[t].ret <= result[t].cap
            /\ result[t].res.val = result[t].data

====
